---- MODULE Spec2Model ----
(***************************************************************************)
(* Model of order_app_sqlite2.py: the Supabase-backed order table, the     *)
(* database helpers add_order_db / update_order_db / delete_order_db /     *)
(* mark_delivered_db, build_reminders and the reminder export handler.     *)
(*                                                                         *)
(* Representation.                                                         *)
(*   - A date STRING ("YYYY-MM-DD") is a triple <<y, m, d>>; it need not   *)
(*     name a calendar date (<<2025, 2, 30>> stands for "2025-02-30").     *)
(*     Python's None is the empty tuple.                                   *)
(*   - A date OBJECT (datetime.date, pandas Timestamp) is its proleptic    *)
(*     Gregorian ordinal, an integer; pandas' NaT is a value outside it.   *)
(*   - strptime / pd.to_datetime go from strings to objects (and can       *)
(*     fail), isoformat goes back.                                         *)
(*   - A status text is a record [kind, days]: the literal and the number  *)
(*     the f-string puts into it.                                          *)
(*   - The backend is assumed reachable (no Supabase error object); every  *)
(*     request of the app is one action, run to completion.                *)
(*   - Spec runs one client, every helper call as a whole.  SpecClients    *)
(*     runs several sessions of the app against the one table: a           *)
(*     mark_delivered_db call is then its two backend round trips, and     *)
(*     inflight holds what the call keeps between them.                    *)
(***************************************************************************)
EXTENDS Integers, Sequences, FiniteSets, TLC

VARIABLES store, nextId, clock, out, inflight

vars == <<store, nextId, clock, out, inflight>>

\* ------------------------------------------------------------------------
\* Bounds
\* ------------------------------------------------------------------------
\* number of rows ever inserted (ids handed out by the table's serial column)
MaxOrders == 2

Ids == 1..MaxOrders

\* ------------------------------------------------------------------------
\* Calendar (datetime.strptime, timedelta, date.isoformat, pd.to_datetime)
\* ------------------------------------------------------------------------
None == <<>>

NaT == -1

IsLeap(y) == (y % 4 = 0) /\ ((y % 100 # 0) \/ (y % 400 = 0))

DaysInMonth(y, m) ==
    IF m = 2 THEN (IF IsLeap(y) THEN 29 ELSE 28)
    ELSE IF m \in {4, 6, 9, 11} THEN 30 ELSE 31

RECURSIVE DaysBeforeMonth(_, _)
DaysBeforeMonth(y, m) ==
    IF m = 1 THEN 0 ELSE DaysBeforeMonth(y, m - 1) + DaysInMonth(y, m - 1)

DaysBeforeYear(y) ==
    LET p == y - 1 IN p * 365 + (p \div 4) - (p \div 100) + (p \div 400)

\* the years the modelled dates lie in
Years == {2025}

\* does the string name a calendar date ("%Y-%m-%d" parses)
StrptimeOK(s) ==
    /\ Len(s) = 3
    /\ s[1] \in Years
    /\ s[2] \in 1..12
    /\ s[3] \in 1..DaysInMonth(s[1], s[2])

\* datetime.strptime(s, "%Y-%m-%d").date() as an ordinal, for a string that parses
ToOrdinal(s) == DaysBeforeYear(s[1]) + DaysBeforeMonth(s[1], s[2]) + s[3]

CalendarDates ==
    {t \in Years \X (1..12) \X (1..31) : t[3] <= DaysInMonth(t[1], t[2])}

\* the date object of every calendar date, and the inverse table
OrdinalOf == [t \in CalendarDates |-> ToOrdinal(t)]

DateOf == [n \in {OrdinalOf[t] : t \in CalendarDates} |->
             CHOOSE t \in CalendarDates : OrdinalOf[t] = n]

\* date.isoformat(): the string of a date object
IsoFormat(n) == DateOf[n]

\* pd.to_datetime(x, errors="coerce"): None and unparseable strings give NaT
ToDatetimeCoerce(s) == IF StrptimeOK(s) THEN ToOrdinal(s) ELSE NaT

IsNa(x) == x = NaT

\* ------------------------------------------------------------------------
\* Constants of the program and input domains
\* ------------------------------------------------------------------------
REMINDER_DAYS == <<9, 7, 5, 3>>

InProduction == [kind |-> "in_production", days |-> 0]

\* the remaining arguments of add_order_db / update_order_db, stored as given
FormA ==
    [order_code |-> "OD1", name |-> "A - x", notes |-> "", package_info |-> "",
     price_cny |-> 2, quantity |-> 1, deposit_cny |-> 0, total_cny |-> 2]

FormB ==
    [order_code |-> "OD2", name |-> "B - y", notes |-> "n", package_info |-> "1 box",
     price_cny |-> 3, quantity |-> 2, deposit_cny |-> 1, total_cny |-> 6]

\* the submissions <<start_date_str, lead_time_int, other fields>>: a date
\* that parses with a negative and a positive lead time, a date that does not
\* parse, no date
Submissions ==
    { <<<<2025, 2, 25>>, -1, FormA>>, <<<<2025, 2, 25>>, 5, FormB>>,
      <<<<2025, 2, 30>>, 5, FormA>>, <<None, -1, FormB>> }

\* delivered_date_str
DeliveredDates == {<<2025, 2, 24>>, <<2025, 3, 2>>, <<2025, 2, 30>>}

\* date.today()
Todays == {ToOrdinal(<<2025, 2, d>>) : d \in 20..25}

\* ------------------------------------------------------------------------
\* What the last request gave back to its caller
\* ------------------------------------------------------------------------
\* op: the helper or handler that ran; id: its order_id; sub: the
\* <<start_date_str, lead_time_int>> it was given; arg: the delivered_date_str
\* it was given; today: date.today() as the reminder handlers read it;
\* raised: an exception left the helper; ok, msg: the (ok, message) pair of
\* mark_delivered_db, the message named by the case that produced it;
\* status: the status text computed; data: ids of the rows the backend
\* reports as written; msgs: the reminder entries; kept: ids of the rows the
\* export filter keeps; was: the delivered_date the order of a
\* mark_delivered_db call held when the call wrote (None without such a row)
Idle ==
    [op |-> "none", id |-> 0, sub |-> <<None, 0>>, arg |-> None, today |-> 0,
     raised |-> FALSE, ok |-> TRUE, msg |-> "", status |-> InProduction,
     data |-> {}, msgs |-> <<>>, kept |-> <<>>, was |-> None]

\* ------------------------------------------------------------------------
\* add_order_db / update_order_db
\* ------------------------------------------------------------------------
\* ExpectedDate with the lead time left out of the sum
ExpectedDate_NoLeadTime(start_date_str, lead_time_int) ==
    IF start_date_str = None THEN None
    ELSE IF ~StrptimeOK(start_date_str) THEN None
    ELSE IsoFormat(ToOrdinal(start_date_str))

\* the try block both helpers open with: expected stays None when there is no
\* start date or when strptime raises
ExpectedDate(start_date_str, lead_time_int) ==
    IF start_date_str = None THEN None
    ELSE IF ~StrptimeOK(start_date_str) THEN None
    ELSE IsoFormat(ToOrdinal(start_date_str) + lead_time_int)

InsertPayload(id, created, start_date_str, lead_time_int, p) ==
    [id |-> id,
     order_code |-> p.order_code,
     name |-> p.name,
     start_date |-> start_date_str,
     lead_time |-> lead_time_int,
     expected_date |-> ExpectedDate(start_date_str, lead_time_int),
     delivered_date |-> None,
     status |-> InProduction,
     notes |-> p.notes,
     created_at |-> created,
     package_info |-> p.package_info,
     price_cny |-> p.price_cny,
     quantity |-> p.quantity,
     deposit_cny |-> p.deposit_cny,
     total_cny |-> p.total_cny]

add_order_db(start_date_str, lead_time_int, p) ==
    /\ nextId <= MaxOrders
    /\ store' = store @@ (nextId :> InsertPayload(nextId, clock, start_date_str, lead_time_int, p))
    /\ nextId' = nextId + 1
    /\ clock' = clock + 1
    /\ out' = [Idle EXCEPT !.op = "add_order_db", !.id = nextId,
                           !.sub = <<start_date_str, lead_time_int>>,
                           !.data = {nextId}]
    /\ UNCHANGED inflight

\* UpdatePayload with the two keys of the insert payload it leaves out
UpdatePayload_ResetsDelivery(row, start_date_str, lead_time_int, p) ==
    [row EXCEPT
       !.order_code = p.order_code,
       !.name = p.name,
       !.start_date = start_date_str,
       !.lead_time = lead_time_int,
       !.expected_date = ExpectedDate(start_date_str, lead_time_int),
       !.delivered_date = None,
       !.status = InProduction,
       !.notes = p.notes,
       !.package_info = p.package_info,
       !.price_cny = p.price_cny,
       !.quantity = p.quantity,
       !.deposit_cny = p.deposit_cny,
       !.total_cny = p.total_cny]

\* the row after the backend applied update(payload) to it
UpdatePayload(row, start_date_str, lead_time_int, p) ==
    [row EXCEPT
       !.order_code = p.order_code,
       !.name = p.name,
       !.start_date = start_date_str,
       !.lead_time = lead_time_int,
       !.expected_date = ExpectedDate(start_date_str, lead_time_int),
       !.notes = p.notes,
       !.package_info = p.package_info,
       !.price_cny = p.price_cny,
       !.quantity = p.quantity,
       !.deposit_cny = p.deposit_cny,
       !.total_cny = p.total_cny]

\* .update(payload).eq("id", order_id): rows that match are rewritten, and a
\* filter that matches nothing is not an error
update_order_db(order_id, start_date_str, lead_time_int, p) ==
    /\ store' = [i \in DOMAIN store |->
                   IF i = order_id
                     THEN UpdatePayload(store[i], start_date_str, lead_time_int, p)
                     ELSE store[i]]
    /\ out' = [Idle EXCEPT !.op = "update_order_db", !.id = order_id,
                           !.sub = <<start_date_str, lead_time_int>>,
                           !.data = DOMAIN store \cap {order_id}]
    /\ UNCHANGED <<nextId, clock, inflight>>

delete_order_db(order_id) ==
    /\ store' = [i \in DOMAIN store \ {order_id} |-> store[i]]
    /\ out' = [Idle EXCEPT !.op = "delete_order_db", !.id = order_id,
                           !.data = DOMAIN store \cap {order_id}]
    /\ UNCHANGED <<nextId, clock, inflight>>

\* ------------------------------------------------------------------------
\* mark_delivered_db
\* ------------------------------------------------------------------------
\* DeliveryStatus with the two elif branches exchanged
DeliveryStatus_Swapped(delta) ==
    IF delta = 0 THEN [kind |-> "on_time", days |-> 0]
    ELSE IF delta > 0 THEN [kind |-> "early", days |-> delta]
    ELSE [kind |-> "late", days |-> -delta]

\* the status text for a day difference delivered - expected
DeliveryStatus(delta) ==
    IF delta = 0 THEN [kind |-> "on_time", days |-> 0]
    ELSE IF delta > 0 THEN [kind |-> "late", days |-> delta]
    ELSE [kind |-> "early", days |-> -delta]

\* DeliveredPayload with the delivered_date key left out
DeliveredPayload_StatusOnly(row, delivered_date_str, status) ==
    [row EXCEPT !.status = status]

\* the row after the backend applied {"delivered_date", "status"} to it
DeliveredPayload(row, delivered_date_str, status) ==
    [row EXCEPT !.delivered_date = delivered_date_str, !.status = status]

\* MarkFailure without the try around strptime(delivered_date_str)
MarkFailure_NoDateCheck(order_id, delivered_date_str) ==
    IF order_id \notin DOMAIN store THEN "no_record"
    ELSE IF store[order_id].expected_date = None THEN "no_expected_date"
    ELSE IF ~StrptimeOK(store[order_id].expected_date) THEN "bad_expected_format"
    ELSE ""

\* MarkFailure with a refusal to confirm an order that is already delivered
MarkFailure_OnlyOnce(order_id, delivered_date_str) ==
    IF order_id \notin DOMAIN store THEN "no_record"
    ELSE IF store[order_id].expected_date = None THEN "no_expected_date"
    ELSE IF ~StrptimeOK(store[order_id].expected_date) THEN "bad_expected_format"
    ELSE IF ~StrptimeOK(delivered_date_str) THEN "bad_date_format"
    ELSE IF store[order_id].delivered_date # None THEN "already_delivered"
    ELSE ""

\* the early returns, in their order; "" when none is taken
MarkFailure(order_id, delivered_date_str) ==
    IF order_id \notin DOMAIN store THEN "no_record"
    ELSE IF store[order_id].expected_date = None THEN "no_expected_date"
    ELSE IF ~StrptimeOK(store[order_id].expected_date) THEN "bad_expected_format"
    ELSE IF ~StrptimeOK(delivered_date_str) THEN "bad_date_format"
    ELSE ""

mark_delivered_db(order_id, delivered_date_str) ==
    LET failure == MarkFailure(order_id, delivered_date_str)
        base == [Idle EXCEPT !.op = "mark_delivered_db", !.id = order_id,
                             !.arg = delivered_date_str,
                             !.was = IF order_id \in DOMAIN store
                                       THEN store[order_id].delivered_date
                                       ELSE None]
    IN  /\ IF failure # ""
             THEN /\ store' = store
                  \* select(...).single() on no row: the client versions the
                  \* helper supports either hand back the error or raise it
                  /\ \E r \in (IF failure = "no_record" THEN BOOLEAN ELSE {FALSE}) :
                       out' = [base EXCEPT !.ok = FALSE, !.msg = failure, !.raised = r]
             ELSE LET expected == ToOrdinal(store[order_id].expected_date)
                      delivered == ToOrdinal(delivered_date_str)
                      status == DeliveryStatus(delivered - expected)
                  IN  /\ store' = [store EXCEPT ![order_id] =
                                        DeliveredPayload(store[order_id], delivered_date_str, status)]
                      /\ out' = [base EXCEPT !.ok = TRUE, !.msg = "status",
                                             !.status = status, !.data = {order_id}]
        /\ UNCHANGED <<nextId, clock, inflight>>

\* no mark_delivered_db call is between its select and its update
NoCall == [id |-> 0, arg |-> None, expected |-> None]

\* mark_delivered_db up to its update: the select of expected_date and the
\* early returns; a call that passes them holds the id, the date given and
\* the expected_date it read
mark_delivered_read(order_id, delivered_date_str) ==
    LET failure == MarkFailure(order_id, delivered_date_str)
        base == [Idle EXCEPT !.op = "mark_delivered_db", !.id = order_id,
                             !.arg = delivered_date_str,
                             !.was = IF order_id \in DOMAIN store
                                       THEN store[order_id].delivered_date
                                       ELSE None]
    IN  /\ inflight = NoCall
        /\ IF failure # ""
             THEN /\ \E r \in (IF failure = "no_record" THEN BOOLEAN ELSE {FALSE}) :
                       out' = [base EXCEPT !.ok = FALSE, !.msg = failure, !.raised = r]
                  /\ inflight' = inflight
             ELSE /\ out' = out
                  /\ inflight' = [id |-> order_id, arg |-> delivered_date_str,
                                  expected |-> store[order_id].expected_date]
        /\ UNCHANGED <<store, nextId, clock>>

\* the rest of the call: the status from the expected_date read, then
\* update(payload).eq("id", order_id), which rewrites the rows that match
\* (none is not an error), and return True, status
mark_delivered_write ==
    LET expected == ToOrdinal(inflight.expected)
        delivered == ToOrdinal(inflight.arg)
        status == DeliveryStatus(delivered - expected)
    IN  /\ inflight # NoCall
        /\ store' = [i \in DOMAIN store |->
                       IF i = inflight.id
                         THEN DeliveredPayload(store[i], inflight.arg, status)
                         ELSE store[i]]
        /\ out' = [Idle EXCEPT !.op = "mark_delivered_db", !.id = inflight.id,
                               !.arg = inflight.arg, !.ok = TRUE, !.msg = "status",
                               !.status = status,
                               !.data = DOMAIN store \cap {inflight.id},
                               !.was = IF inflight.id \in DOMAIN store
                                         THEN store[inflight.id].delivered_date
                                         ELSE None]
        /\ inflight' = NoCall
        /\ UNCHANGED <<nextId, clock>>

\* ------------------------------------------------------------------------
\* build_reminders and the reminder export
\* ------------------------------------------------------------------------
InReminderDays(n) == \E k \in 1..Len(REMINDER_DAYS) : REMINDER_DAYS[k] = n

\* ReminderKind with the window read as "within 9 days"
ReminderKind_Within(days_left) ==
    IF days_left < 0 THEN "overdue"
    ELSE IF days_left = 0 THEN "today"
    ELSE IF days_left <= 9 THEN "upcoming"
    ELSE "none"

\* the if / elif chain of build_reminders; "none" when no branch appends
ReminderKind(days_left) ==
    IF days_left < 0 THEN "overdue"
    ELSE IF days_left = 0 THEN "today"
    ELSE IF InReminderDays(days_left) THEN "upcoming"
    ELSE "none"

\* IsPending without the filter on delivered_date
IsPending_Everything(row) == TRUE

\* df[df["delivered_date"].isna()] after row_to_df
IsPending(row) == IsNa(ToDatetimeCoerce(row.delivered_date))

\* the entries one row contributes
ReminderOf(row, today) ==
    LET exp == ToDatetimeCoerce(row.expected_date)
        days_left == exp - today
        kind == ReminderKind(days_left)
    IN  IF ~IsPending(row) THEN <<>>
        ELSE IF IsNa(exp) THEN <<>>
        ELSE IF kind = "none" THEN <<>>
        ELSE << [kind |-> kind, id |-> row.id, name |-> row.name,
                 days |-> IF kind = "overdue" THEN -days_left ELSE days_left,
                 expected |-> exp] >>

\* rows in the order get_orders_df returns them: id descending, from id i down
RECURSIVE RemindersFrom(_, _, _)
RemindersFrom(st, today, i) ==
    IF i = 0 THEN <<>>
    ELSE (IF i \in DOMAIN st THEN ReminderOf(st[i], today) ELSE <<>>)
         \o RemindersFrom(st, today, i - 1)

build_reminders(st, today) == RemindersFrom(st, today, MaxOrders)

\* the "Nhac nho" page without the export button pressed
ShowReminders(today) ==
    /\ out' = [Idle EXCEPT !.op = "build_reminders", !.today = today,
                           !.msgs = build_reminders(store, today)]
    /\ UNCHANGED <<store, nextId, clock, inflight>>

\* the export filter on one pending row whose expected_date is a date
ExportKeeps(row, today) ==
    LET days_left == ToDatetimeCoerce(row.expected_date) - today
    IN  InReminderDays(days_left) \/ days_left = 0 \/ days_left < 0

RECURSIVE ExportFrom(_, _, _)
ExportFrom(st, today, i) ==
    IF i = 0 THEN <<>>
    ELSE (IF i \in DOMAIN st /\ IsPending(st[i]) /\ ExportKeeps(st[i], today)
            THEN <<i>> ELSE <<>>)
         \o ExportFrom(st, today, i - 1)

\* the lambda d: (d - today).days is applied to every pending row; on a NaT
\* (no expected_date) the subtraction NaT - datetime.date raises TypeError
ExportRaises(st) ==
    \E i \in DOMAIN st : IsPending(st[i]) /\ IsNa(ToDatetimeCoerce(st[i].expected_date))

\* the same page with the export button pressed: the button exists only
\* when build_reminders returned something
ExportReminders(today) ==
    LET msgs == build_reminders(store, today)
        base == [Idle EXCEPT !.op = "export_reminders", !.today = today, !.msgs = msgs]
    IN  /\ msgs # <<>>
        /\ out' = IF ExportRaises(store)
                    THEN [base EXCEPT !.raised = TRUE, !.ok = FALSE, !.msg = "TypeError"]
                    ELSE [base EXCEPT !.kept = ExportFrom(store, today, MaxOrders)]
        /\ UNCHANGED <<store, nextId, clock, inflight>>

Init ==
    /\ store = <<>>
    /\ nextId = 1
    /\ clock = 1
    /\ out = Idle
    /\ inflight = NoCall

AddOrder == \E f \in Submissions : add_order_db(f[1], f[2], f[3])

UpdateOrder ==
    \E i \in Ids, f \in Submissions : update_order_db(i, f[1], f[2], f[3])

DeleteOrder == \E i \in Ids : delete_order_db(i)

MarkDelivered == \E i \in Ids, d \in DeliveredDates : mark_delivered_db(i, d)

Reminders == \E t \in Todays : ShowReminders(t)

Export == \E t \in Todays : ExportReminders(t)

Next ==
    \/ AddOrder
    \/ UpdateOrder
    \/ DeleteOrder
    \/ MarkDelivered
    \/ Reminders
    \/ Export

Spec == Init /\ [][Next]_vars

\* several sessions on the one table: whole calls of the other helpers
\* between the two round trips of a mark_delivered_db call
MarkRead == \E i \in Ids, d \in DeliveredDates : mark_delivered_read(i, d)

MarkWrite == mark_delivered_write

NextClients ==
    \/ AddOrder
    \/ UpdateOrder
    \/ DeleteOrder
    \/ MarkRead
    \/ MarkWrite

SpecClients == Init /\ [][NextClients]_vars

\* ------------------------------------------------------------------------
\* Properties
\* ------------------------------------------------------------------------
Rows == DOMAIN store

\* the signed day difference a delivery status text states
SignedDays(status) ==
    IF status.kind = "late" THEN status.days
    ELSE IF status.kind = "early" THEN -status.days
    ELSE 0

DeliveredKinds == {"on_time", "late", "early"}

\* C1: in every reachable state every stored order whose start_date is a
\* calendar date has an expected_date that is the date lead_time days after
\* it, and only add_order_db and update_order_db ever change an order's
\* expected_date.
C1_ExpectedDateDerived ==
    /\ [](\A i \in Rows :
            StrptimeOK(store[i].start_date) =>
              /\ StrptimeOK(store[i].expected_date)
              /\ ToOrdinal(store[i].expected_date)
                   = ToOrdinal(store[i].start_date) + store[i].lead_time)
    /\ [][\A i \in Rows \cap DOMAIN store' :
            store'[i].expected_date # store[i].expected_date
              => out'.op = "update_order_db" /\ out'.id = i]_vars

\* an order updated to start 2025-02-25 with lead time 5, due 2025-03-02
C1_Witness ==
    /\ out.op = "update_order_db"
    /\ out.id \in Rows
    /\ store[out.id].start_date = <<2025, 2, 25>>
    /\ store[out.id].lead_time = 5
    /\ store[out.id].expected_date = <<2025, 3, 2>>

\* C2: mark_delivered_db on an order with an expected_date, given a valid
\* delivered_date, succeeds and stores and returns the status of
\* delta = delivered - expected: on time for 0, late by delta for delta > 0,
\* early by -delta for delta < 0, the number reported being positive.
C2_DeliveryClassified ==
    [][(/\ out'.op = "mark_delivered_db"
        /\ out'.id \in Rows
        /\ store[out'.id].expected_date # None
        /\ StrptimeOK(out'.arg))
       => LET delta == ToOrdinal(out'.arg) - ToOrdinal(store[out'.id].expected_date)
              st == out'.status
          IN  /\ out'.ok
              /\ store'[out'.id].status = st
              /\ store'[out'.id].delivered_date = out'.arg
              /\ st.kind \in DeliveredKinds
              /\ (delta = 0 <=> st.kind = "on_time")
              /\ (delta > 0 <=> st.kind = "late")
              /\ (delta < 0 <=> st.kind = "early")
              /\ (delta > 0 => st.days = delta)
              /\ (delta < 0 => st.days = -delta)
              /\ (st.kind # "on_time" => st.days > 0)]_vars

\* an order due 2025-03-02 confirmed delivered on 2025-02-24: early by 6 days
C2_Witness ==
    /\ out.op = "mark_delivered_db"
    /\ out.ok
    /\ out.arg = <<2025, 2, 24>>
    /\ store[out.id].expected_date = <<2025, 3, 2>>
    /\ out.status = [kind |-> "early", days |-> 6]

\* C3: in every reachable state the status of every order with a
\* delivered_date states the signed day difference between the stored
\* delivered_date and the stored expected_date.
C3_StatusEncodesDelta ==
    \A i \in Rows :
      store[i].delivered_date # None =>
        /\ store[i].expected_date # None
        /\ store[i].status.kind \in DeliveredKinds
        /\ SignedDays(store[i].status)
             = ToOrdinal(store[i].delivered_date) - ToOrdinal(store[i].expected_date)

\* C4: update_order_db leaves delivered_date, status, id and created_at of
\* its order as they were, leaves every other order as it was, and neither
\* adds nor removes an order.
C4_UpdateFrame ==
    [][out'.op = "update_order_db" =>
         /\ DOMAIN store' = Rows
         /\ \A i \in Rows :
              IF i = out'.id
                THEN /\ store'[i].delivered_date = store[i].delivered_date
                     /\ store'[i].status = store[i].status
                     /\ store'[i].id = store[i].id
                     /\ store'[i].created_at = store[i].created_at
                ELSE store'[i] = store[i]]_vars

\* a delivered order rewritten by an update while another order is stored
C4_Witness ==
    /\ out.op = "update_order_db"
    /\ Rows = {1, 2}
    /\ out.id = 2
    /\ store[2].delivered_date # None
    /\ store[2].name = "B - y"
    /\ store[1].name = "A - x"

\* the entries of a reminder list that are about order i
EntriesOf(msgs, i) == {k \in 1..Len(msgs) : msgs[k].id = i}

ReminderOps == {"build_reminders", "export_reminders"}

\* C5: for every open order with an expected_date and every reference date,
\* with days_left = expected_date - reference date, build_reminders emits
\* exactly one entry for the order when days_left < 0 (overdue, by
\* -days_left), = 0 (due today) or in {9, 7, 5, 3} (upcoming, in days_left
\* days), and no entry for any other days_left.
C5_ReminderClassified ==
    out.op \in ReminderOps =>
      \A i \in Rows :
        (store[i].delivered_date = None /\ store[i].expected_date # None) =>
          LET days_left == ToOrdinal(store[i].expected_date) - out.today
              es == EntriesOf(out.msgs, i)
          IN  IF days_left < 0
                THEN /\ Cardinality(es) = 1
                     /\ \A k \in es : out.msgs[k].kind = "overdue"
                                      /\ out.msgs[k].days = -days_left
              ELSE IF days_left = 0
                THEN /\ Cardinality(es) = 1
                     /\ \A k \in es : out.msgs[k].kind = "today"
              ELSE IF days_left \in {9, 7, 5, 3}
                THEN /\ Cardinality(es) = 1
                     /\ \A k \in es : out.msgs[k].kind = "upcoming"
                                      /\ out.msgs[k].days = days_left
              ELSE es = {}

\* on 2025-02-22 an open order due 2025-03-02 has 8 days left and the list
\* is empty
C5_WitnessSilent ==
    /\ out.op = "build_reminders"
    /\ out.today = ToOrdinal(<<2025, 2, 22>>)
    /\ \E i \in Rows : /\ store[i].delivered_date = None
                       /\ store[i].expected_date = <<2025, 3, 2>>
    /\ out.msgs = <<>>

\* on 2025-02-21 an open order due 2025-03-02 is upcoming in 9 days and an
\* open order due 2025-02-24 is upcoming in 3 days
C5_Witness ==
    /\ out.op = "build_reminders"
    /\ out.today = ToOrdinal(<<2025, 2, 21>>)
    /\ Len(out.msgs) = 2
    /\ \E k \in 1..2 : out.msgs[k].kind = "upcoming" /\ out.msgs[k].days = 9
    /\ \E k \in 1..2 : out.msgs[k].kind = "upcoming" /\ out.msgs[k].days = 3

\* C6: after any sequence of operations and for any reference date, every
\* entry build_reminders emits is about a stored order without a
\* delivered_date and with an expected_date; build_reminders raises nothing.
C6_ClosedNeverReminded ==
    /\ out.op \in ReminderOps =>
         \A k \in 1..Len(out.msgs) :
           /\ out.msgs[k].id \in Rows
           /\ store[out.msgs[k].id].delivered_date = None
           /\ store[out.msgs[k].id].expected_date # None
    /\ out.op = "build_reminders" => ~out.raised

\* reminders built while a delivered order is past its expected_date and an
\* open order has no expected_date
C6_Witness ==
    /\ out.op = "build_reminders"
    /\ Rows = {1, 2}
    /\ \E i, j \in Rows :
         /\ store[i].delivered_date # None
         /\ store[i].expected_date # None
         /\ ToOrdinal(store[i].expected_date) <= out.today
         /\ store[j].delivered_date = None
         /\ store[j].expected_date = None

\* C7: a create or update submitted with a start_date that is not a calendar
\* date, or with a negative lead_time, raises and leaves the store unchanged.
C7_BadSubmissionRejected ==
    [][(/\ out'.op \in {"add_order_db", "update_order_db"}
        /\ (~StrptimeOK(out'.sub[1]) \/ out'.sub[2] < 0))
       => (out'.raised /\ store' = store)]_vars

\* C8: mark_delivered_db on a stored order without an expected_date, or with
\* a delivered_date that is not a calendar date, returns a failure naming
\* that case and leaves the store unchanged.
C8_MarkRejected ==
    [][(/\ out'.op = "mark_delivered_db"
        /\ out'.id \in Rows
        /\ (store[out'.id].expected_date = None \/ ~StrptimeOK(out'.arg)))
       => /\ ~out'.ok
          /\ out'.msg = (IF store[out'.id].expected_date = None
                           THEN "no_expected_date" ELSE "bad_date_format")
          /\ store' = store]_vars

\* a delivered order confirmed again with 2025-02-30: refused, the earlier
\* delivered_date still stored
C8_Witness ==
    /\ out.op = "mark_delivered_db"
    /\ ~out.ok
    /\ out.msg = "bad_date_format"
    /\ out.arg = <<2025, 2, 30>>
    /\ out.id \in Rows
    /\ store[out.id].delivered_date = <<2025, 2, 24>>

\* an open order without expected_date: refused, still open
C8_WitnessNoExpected ==
    /\ out.op = "mark_delivered_db"
    /\ ~out.ok
    /\ out.msg = "no_expected_date"
    /\ out.id \in Rows
    /\ store[out.id].delivered_date = None

\* C9: update_order_db with an id that is not stored leaves the set of stored
\* orders unchanged and raises instead of returning normally.
C9_UpdateMissingReported ==
    [][(out'.op = "update_order_db" /\ out'.id \notin Rows)
       => (store' = store /\ out'.raised)]_vars

\* C10: for every store and reference date the rows the reminder export
\* keeps are the orders build_reminders has an entry for, also when an open
\* order has no expected_date.
C10_ExportMatchesReminders ==
    out.op = "export_reminders" =>
      /\ ~out.raised
      /\ {out.kept[k] : k \in 1..Len(out.kept)}
           = {out.msgs[k].id : k \in 1..Len(out.msgs)}

\* C11: a successful confirmation followed at once by a confirmation of the
\* same order with the same delivered_date gives the same status and leaves
\* the store as it is; followed by one with another valid delivered_date it
\* succeeds and stores that date with the status of its own day difference.
\* The stored delivered_date and status change only in a successful
\* confirmation, to the date given and the status returned.
C11_Reconfirm ==
    /\ [][(/\ out.op = "mark_delivered_db" /\ out.ok
           /\ out'.op = "mark_delivered_db" /\ out'.id = out.id
           /\ StrptimeOK(out'.arg))
          => /\ out'.ok
             /\ out'.id \in DOMAIN store'
             /\ store'[out'.id].delivered_date = out'.arg
             /\ store'[out'.id].status = out'.status
             /\ SignedDays(out'.status)
                  = ToOrdinal(out'.arg) - ToOrdinal(store'[out'.id].expected_date)
             /\ (out'.arg = out.arg => (out'.status = out.status /\ store' = store))]_vars
    /\ [][\A i \in Rows \cap DOMAIN store' :
            (\/ store'[i].delivered_date # store[i].delivered_date
             \/ store'[i].status # store[i].status)
            => /\ out'.op = "mark_delivered_db" /\ out'.ok /\ out'.id = i
               /\ store'[i].delivered_date = out'.arg
               /\ store'[i].status = out'.status]_vars

\* an order delivered on 2025-02-24 confirmed again with 2025-03-02, now late
C11_Witness ==
    /\ out.op = "mark_delivered_db"
    /\ out.ok
    /\ out.was = <<2025, 2, 24>>
    /\ out.arg = <<2025, 3, 2>>
    /\ store[out.id].delivered_date = <<2025, 3, 2>>
    /\ store[out.id].status.kind = "late"

\* an order delivered on 2025-02-24 confirmed again with 2025-02-24
C11_WitnessSame ==
    /\ out.op = "mark_delivered_db"
    /\ out.ok
    /\ out.was = <<2025, 2, 24>>
    /\ out.arg = <<2025, 2, 24>>

\* C12: with several clients, the status a successful mark_delivered_db
\* wrote is the one of the expected_date stored at the moment of the write,
\* and success is reported only when the order exists and carries the
\* delivered_date and status of the call (its read and its write are not
\* separated by another client's update or delete of the order).
C12_ConfirmAtomic ==
    (out.op = "mark_delivered_db" /\ out.ok) =>
      /\ out.id \in Rows
      /\ store[out.id].delivered_date = out.arg
      /\ store[out.id].status = out.status
      /\ store[out.id].expected_date # None
      /\ SignedDays(out.status)
           = ToOrdinal(out.arg) - ToOrdinal(store[out.id].expected_date)

\* C12 as amended: the call reads expected_date and then writes, and other
\* clients' calls may fall between.  The write sets delivered_date and status
\* of the order together, in one step, if the order is still stored, and
\* changes nothing else; the status is the one of the expected_date read;
\* success is reported.  If the order is still stored with the expected_date
\* read, the status is the one of the stored expected_date.  In every state
\* an order has a delivered_date exactly when its status is a delivery status.
C12_ReadThenWrite ==
    /\ [](\A i \in Rows :
            store[i].delivered_date = None <=> store[i].status = InProduction)
    /\ [][(inflight = NoCall /\ inflight' # NoCall)
          => /\ inflight'.id \in Rows
             /\ inflight'.expected = store[inflight'.id].expected_date
             /\ store' = store
             /\ out' = out]_vars
    /\ [][(inflight # NoCall /\ inflight' # inflight)
          => /\ inflight' = NoCall
             /\ out'.op = "mark_delivered_db" /\ out'.ok /\ ~out'.raised
             /\ out'.id = inflight.id /\ out'.arg = inflight.arg
             /\ out'.status.kind \in DeliveredKinds
             /\ SignedDays(out'.status)
                  = ToOrdinal(inflight.arg) - ToOrdinal(inflight.expected)
             /\ DOMAIN store' = Rows
             /\ \A i \in Rows :
                  IF i = inflight.id
                    THEN store'[i] = [store[i] EXCEPT !.delivered_date = inflight.arg,
                                                      !.status = out'.status]
                    ELSE store'[i] = store[i]
             /\ (inflight.id \in Rows /\ store[inflight.id].expected_date = inflight.expected)
                  => SignedDays(store'[inflight.id].status)
                       = ToOrdinal(store'[inflight.id].delivered_date)
                           - ToOrdinal(store'[inflight.id].expected_date)]_vars

\* success reported for an order another client deleted after the read
C12_WitnessDeleted ==
    /\ out.op = "mark_delivered_db"
    /\ out.ok
    /\ out.id \notin Rows
    /\ inflight = NoCall

\* an order due 2025-03-02 by another client's update after the read, stored
\* as delivered on 2025-02-24 "on time"
C12_Witness ==
    /\ out.op = "mark_delivered_db"
    /\ out.ok
    /\ out.id \in Rows
    /\ store[out.id].expected_date = <<2025, 3, 2>>
    /\ store[out.id].delivered_date = <<2025, 2, 24>>
    /\ store[out.id].status = [kind |-> "on_time", days |-> 0]
    /\ out.status = store[out.id].status
    /\ out.was = None

====
